---- MODULE Spec2Model ----
(***************************************************************************)
(* The SMS conversation engine of src/main.py: the shop directory, the     *)
(* in-memory session map, the slot generator, the damage estimator with    *)
(* its defaults, the calendar collaborator and the /sms-webhook handler.   *)
(*                                                                         *)
(* Time is counted in minutes since midnight of day 0 (naive local time,   *)
(* as datetime.datetime.now() gives it).  Money is in whole dollars and a  *)
(* confidence is in thousandths (0.65 is 650).                             *)
(***************************************************************************)
EXTENDS Integers, Sequences, FiniteSets, TLC

VARIABLES
    SHOPS_BY_TOKEN,   \* the directory loaded at import time (token -> ShopConfig)
    OPENAI_API_KEY,   \* TRUE iff the estimator credential is set in the environment
    SESSIONS,         \* the session map (session_key -> [awaiting_time, slots])
    now,              \* the wall clock, in minutes
    pending,          \* requests suspended at "await estimate_damage_from_images"
    last              \* observation of the step just taken (request, branch, calls, reply)

vars == <<SHOPS_BY_TOKEN, OPENAI_API_KEY, SESSIONS, now, pending, last>>

-----------------------------------------------------------------------------
(* Bounds of the model *)

MaxDay == 1          \* the clock stops advancing after this day
MaxInFlight == 1     \* requests that may be suspended at the estimator at once
MaxMedia == 1        \* the most MediaUrl<i> fields a form carries

(* Program constants *)

DefaultSlotCount == 3     \* get_appointment_slots(n: int = 3)
AppointmentMinutes == 45  \* datetime.timedelta(minutes=45)

MinutesPerDay == 24 * 60
TickMinutes == 18 * 60
StartTimes == {23 * 60 + 59}

Min(a, b) == IF a <= b THEN a ELSE b
EmptyMap == [z \in {} |-> 0]
Put(map, key, value) == (key :> value) @@ map

-----------------------------------------------------------------------------
(* SHOP CONFIG *)

NoCalendar == ""   \* calendar_id None: falsy at "not shop.calendar_id"

ShopConfig(id, name, calendar_id, webhook_token) ==
    [id |-> id, name |-> name, calendar_id |-> calendar_id, webhook_token |-> webhook_token]

\* The SHOPS_JSON lists the model considers: unset, and two tenants of which
\* one id extends the other by ":wa" and has no calendar.
ShopLists ==
    { <<>>,
      << ShopConfig("east", "East Auto", "cal-east", "tok-east"),
         ShopConfig("east:wa", "East WhatsApp", NoCalendar, "tok-wa") >> }

\* {s["webhook_token"]: ShopConfig(**s) for s in data}: of two entries with
\* the same token the later one stays
load_shops(data) ==
    [tok \in {data[i].webhook_token : i \in DOMAIN data} |->
        LET at == {i \in DOMAIN data : data[i].webhook_token = tok}
        IN  data[CHOOSE i \in at : \A j \in at : j <= i]]

DefaultShop == ShopConfig("default", "Auto Body Shop", NoCalendar, "")

\* request.query_params: a map from parameter names to strings
Queries ==
    { EmptyMap, "token" :> "tok-east", "token" :> "tok-wa", "token" :> "nope", "token" :> "" }

Forbidden == [status_code |-> 403]

\* A get_shop that tests the token before it looks at the directory
get_shop_token_first(query) ==
    IF "token" \notin DOMAIN query
    THEN Forbidden
    ELSE IF query["token"] = ""
         THEN Forbidden
         ELSE IF DOMAIN SHOPS_BY_TOKEN = {}
              THEN DefaultShop
              ELSE IF query["token"] \notin DOMAIN SHOPS_BY_TOKEN
                   THEN Forbidden
                   ELSE SHOPS_BY_TOKEN[query["token"]]

\* A get_shop that falls back to the default shop instead of refusing
get_shop_default_on_failure(query) ==
    IF DOMAIN SHOPS_BY_TOKEN = {}
    THEN DefaultShop
    ELSE IF "token" \notin DOMAIN query
         THEN DefaultShop
         ELSE IF query["token"] \notin DOMAIN SHOPS_BY_TOKEN
              THEN DefaultShop
              ELSE SHOPS_BY_TOKEN[query["token"]]

\* get_shop: the ShopConfig of the request, or Forbidden (HTTPException 403)
get_shop(query) ==
    IF DOMAIN SHOPS_BY_TOKEN = {}
    THEN DefaultShop
    ELSE IF "token" \notin DOMAIN query
         THEN Forbidden
         ELSE IF query["token"] = "" \/ query["token"] \notin DOMAIN SHOPS_BY_TOKEN
              THEN Forbidden
              ELSE SHOPS_BY_TOKEN[query["token"]]

-----------------------------------------------------------------------------
(* GOOGLE CALENDAR *)

\* What the calendar collaborator does on one call: the credential file is
\* absent, it cannot be loaded, or the service is built and events().insert()
\* succeeds or raises.
CalendarBehaviours == {"no_credentials", "credentials_error", "insert_ok", "insert_error"}

\* get_calendar_service: "none", "raised" or "service"
get_calendar_service(cal) ==
    CASE cal = "no_credentials" -> "none"
      [] cal = "credentials_error" -> "raised"
      [] OTHER -> "service"

\* create_calendar_event: "absent" (returns None), "created" (returns the id)
\* or "raised" (the exception leaves the function)
create_calendar_event(shop, cal) ==
    LET service == get_calendar_service(cal) IN
    IF service = "raised" THEN "raised"
    ELSE IF service = "none" \/ shop.calendar_id = NoCalendar THEN "absent"
    ELSE IF cal = "insert_ok" THEN "created"
    ELSE "raised"

-----------------------------------------------------------------------------
(* MULTI-IMAGE EXTRACTION *)

\* A form's media fields: the set of i for which MediaUrl<i> is present (the
\* transport numbers them 0, 1, ... without gaps).  The url of MediaUrl<i> is
\* written i.
MediaForms == {0..(n - 1) : n \in 0..MaxMedia}

RECURSIVE extract_from(_, _)
extract_from(media, i) ==
    IF i \notin media THEN <<>> ELSE <<i>> \o extract_from(media, i + 1)

extract_image_urls(media) == extract_from(media, 0)

-----------------------------------------------------------------------------
(* APPOINTMENT SLOTS *)

hours == <<9, 11, 14, 16>>

DayOf(t) == t \div MinutesPerDay
HourOf(t) == (t % MinutesPerDay) \div 60
MinuteOf(t) == t % 60

\* A replace that sets the hour only: tomorrow.replace(hour=h)
ReplaceHour_keeps_minute(t, h) == DayOf(t) * MinutesPerDay + h * 60 + MinuteOf(t)

\* tomorrow.replace(hour=h, minute=0, second=0, microsecond=0)
ReplaceHour(t, h) == DayOf(t) * MinutesPerDay + h * 60

RECURSIVE slots_from(_, _)
slots_from(i, tomorrow) ==
    IF i > Len(hours) THEN <<>>
    ELSE LET dt == ReplaceHour(tomorrow, hours[i]) IN
         (IF dt > now THEN <<dt>> ELSE <<>>) \o slots_from(i + 1, tomorrow)

\* A slot generator that takes the candidate hours of today
get_appointment_slots_today(n) ==
    LET slots == slots_from(1, now)
    IN  SubSeq(slots, 1, Min(n, Len(slots)))

get_appointment_slots(n) ==
    LET tomorrow == now + MinutesPerDay
        slots == slots_from(1, tomorrow)
    IN  SubSeq(slots, 1, Min(n, Len(slots)))

\* dt.strftime('%a %b %d at %I:%M %p'): weekday, month and day (no year),
\* 12-hour clock, minute, AM/PM
strftime(dt) ==
    [a |-> DayOf(dt) % 7,
     bd |-> DayOf(dt) % 365,
     I |-> ((HourOf(dt) + 11) % 12) + 1,
     M |-> MinuteOf(dt),
     p |-> IF HourOf(dt) < 12 THEN "AM" ELSE "PM"]

-----------------------------------------------------------------------------
(* AI DAMAGE ESTIMATION *)

\* JSON values, tagged with their type
Num(n) == [t |-> "num", n |-> n]
Str(s) == [t |-> "str", s |-> s]
List(l) == [t |-> "list", l |-> l]
Null == [t |-> "null"]

EmptyObject == [z \in {} |-> Null]

\* An assignment in place of setdefault: result[key] = default
setdefault_overwrites(result, key, default) == (key :> default) @@ result

\* result.setdefault(key, default)
setdefault(result, key, default) ==
    IF key \in DOMAIN result THEN result ELSE (key :> default) @@ result

\* The dict returned without a call (no key) and from the except branch
FixedEstimate(confidence) ==
    ("severity" :> Str("Moderate")) @@ ("min_cost" :> Num(450)) @@ ("max_cost" :> Num(1200))
    @@ ("damage_areas" :> List(<<>>)) @@ ("damage_types" :> List(<<>>))
    @@ ("suggested_repairs" :> List(<<>>)) @@ ("confidence" :> Num(confidence))

\* What the estimator call can come back with: the call fails (network error,
\* timeout, a body that is not the expected JSON), the content parses to a
\* JSON value that is not an object, or it parses to an object.
CallFailed == [ok |-> FALSE]
NotAnObject == [ok |-> TRUE, object |-> FALSE]
Object(fields) == [ok |-> TRUE, object |-> TRUE, fields |-> fields]

EstimatorResponses ==
    { CallFailed,
      NotAnObject,
      Object(EmptyObject),
      \* every field present and well formed
      Object(("severity" :> Str("Severe")) @@ ("min_cost" :> Num(800)) @@ ("max_cost" :> Num(2500))
             @@ ("damage_areas" :> List(<<Str("front bumper"), Str("hood")>>))
             @@ ("damage_types" :> List(<<Str("dent")>>))
             @@ ("suggested_repairs" :> List(<<Str("PDR")>>)) @@ ("confidence" :> Num(874))),
      \* some fields only
      Object(("severity" :> Str("Minor")) @@ ("min_cost" :> Num(100))),
      Object(("min_cost" :> Num(2000))),
      Object(("confidence" :> Num(1500))),
      Object(("severity" :> Str("Critical"))),
      \* values of another type than the schema asks for
      Object(("min_cost" :> Null) @@ ("damage_areas" :> Null)),
      Object(("damage_types" :> List(<<Num(1)>>))),
      Object(("confidence" :> Str("high"))) }

\* The try block after the call returned: json.loads, then the setdefault
\* lines; any exception in it (setdefault on a non-dict included) goes to the
\* except branch.
estimate_after_call(resp) ==
    IF ~resp.ok \/ ~resp.object
    THEN FixedEstimate(550)
    ELSE LET r1 == setdefault(resp.fields, "severity", Str("Moderate"))
             r2 == setdefault(r1, "min_cost", Num(450))
             r3 == setdefault(r2, "max_cost", Num(1200))
             r4 == setdefault(r3, "damage_areas", List(<<>>))
             r5 == setdefault(r4, "damage_types", List(<<>>))
             r6 == setdefault(r5, "suggested_repairs", List(<<>>))
         IN  setdefault(r6, "confidence", Num(700))

\* estimate_damage_from_images without a key: no call is made
estimate_without_key == FixedEstimate(650)

\* estimate_damage_from_images: whether the call was made, and the dict
\* returned; resp is what the call comes back with if it is made
estimate_damage_from_images(resp) ==
    IF ~OPENAI_API_KEY
    THEN [called |-> FALSE, result |-> estimate_without_key]
    ELSE [called |-> TRUE, result |-> estimate_after_call(resp)]

-----------------------------------------------------------------------------
(* Rendering of the reply *)

\* Python truth value of a JSON value
Truthy(v) ==
    CASE v.t = "null" -> FALSE
      [] v.t = "num" -> v.n # 0
      [] v.t = "str" -> v.s # ""
      [] v.t = "list" -> v.l # <<>>

\* ", ".join(v) raises unless v is a list of strings (a plain string, which
\* join would split into characters, is not among the responses above)
Joinable(v) == v.t = "list" /\ \A i \in DOMAIN v.l : v.l[i].t = "str"

RECURSIVE join_from(_, _)
join_from(l, i) ==
    IF i > Len(l) THEN ""
    ELSE IF i = Len(l) THEN l[i].s
    ELSE l[i].s \o ", " \o join_from(l, i + 1)

\* ", ".join(result[field]) if result[field] else <placeholder>
JoinOr(v, placeholder) == IF Truthy(v) THEN join_from(v.l, 1) ELSE placeholder
JoinRaises(v) == Truthy(v) /\ ~Joinable(v)

\* f"{x:,.0f}" of a whole number: the sign and the groups of three digits
RECURSIVE Groups(_)
Groups(n) == IF n < 1000 THEN <<n>> ELSE Append(Groups(n \div 1000), n % 1000)

FormatCost(v) == [negative |-> v.n < 0, groups |-> Groups(IF v.n < 0 THEN -v.n ELSE v.n)]

\* f"{x:.2f}": thousandths rounded to hundredths (no response above is a tie)
Format2f(v) == (v.n + 5) \div 10

FormatRaises(v) == v.t # "num"

-----------------------------------------------------------------------------
(* ROUTES: POST /sms-webhook *)

\* A message body is a sequence of characters
Bodies == { <<"1">>, <<" ", "3", " ">>, <<"4">> }

\* The senders that message each shop
Senders(shop) == IF shop.id = "east:wa" THEN {"+1555"} ELSE {"+1555", "wa:+1555"}

RECURSIVE lstrip(_)
lstrip(s) == IF s # <<>> /\ Head(s) = " " THEN lstrip(Tail(s)) ELSE s

RECURSIVE rstrip(_)
rstrip(s) == IF s # <<>> /\ s[Len(s)] = " " THEN rstrip(SubSeq(s, 1, Len(s) - 1)) ELSE s

\* (form.get("Body") or "").strip()
strip(s) == rstrip(lstrip(s))

\* int(body) for a body in {"1", "2", "3"}
int(body) == CASE body = <<"1">> -> 1 [] body = <<"2">> -> 2 [] body = <<"3">> -> 3

\* A key that leaves the shop out
session_key_sender_only(shop, from_number) == from_number

\* f"{shop.id}:{from_number}"
session_key(shop, from_number) == shop.id \o ":" \o from_number

\* SESSIONS.get(session_key)
NoSession == [present |-> FALSE]
Session(awaiting_time, slots) ==
    [present |-> TRUE, awaiting_time |-> awaiting_time, slots |-> slots]
sessions_get(key) == IF key \in DOMAIN SESSIONS THEN SESSIONS[key] ELSE NoSession

\* if session and session.get("awaiting_time") and body in {"1", "2", "3"}
is_selection(session, body) ==
    session.present /\ session.awaiting_time /\ body \in {<<"1">>, <<"2">>, <<"3">>}

\* ... and 0 <= idx < len(slots)
booking_selected(session, body) ==
    /\ is_selection(session, body)
    /\ LET idx == int(body) - 1 IN 0 <= idx /\ idx < Len(session.slots)

\* if image_urls:
image_selected(image_urls) == image_urls # <<>>

\* A handler that tests for images before it tests for a selection
branch_of_images_first(session, body, image_urls) ==
    IF image_selected(image_urls) THEN "image"
    ELSE IF booking_selected(session, body) THEN "booking"
    ELSE "default"

\* The branch the handler takes
branch_of(session, body, image_urls) ==
    IF booking_selected(session, body) THEN "booking"
    ELSE IF image_selected(image_urls) THEN "image"
    ELSE "default"

\* Replies.  An exception that leaves the handler is answered by the framework
\* with a 500 and no message; a failed get_shop with a 403.
NoReply == [kind |-> "none"]
Error500 == [kind |-> "error", status_code |-> 500]
Rejected403 == [kind |-> "error", status_code |-> 403]
Confirmation(chosen) == [kind |-> "confirmation", time |-> strftime(chosen)]
Generic(shop) == [kind |-> "generic", shop_name |-> shop.name]
EstimateReply(shop, result, slots) ==
    [kind |-> "estimate",
     shop_name |-> shop.name,
     severity |-> result["severity"],
     areas |-> JoinOr(result["damage_areas"], "General Damage"),
     types |-> JoinOr(result["damage_types"], "Unspecified"),
     cost_range |-> <<FormatCost(result["min_cost"]), FormatCost(result["max_cost"])>>,
     confidence |-> Format2f(result["confidence"]),
     list |-> [i \in 1..Len(slots) |-> strftime(slots[i])]]

NoCall == [called |-> FALSE]
CalendarCall(shop, start_dt, end_dt, phone, outcome) ==
    [called |-> TRUE, shop |-> shop.id, start_dt |-> start_dt, end_dt |-> end_dt,
     phone |-> phone, outcome |-> outcome]

\* A booking that also drops the list: session["slots"] = []
booked_session_clears(session) == Session(FALSE, <<>>)

\* The session the booking branch leaves: session["awaiting_time"] = False
booked_session(session) == Session(FALSE, session.slots)

\* The booking branch: [sessions, calendar, reply]
booking_branch(shop, from_number, key, session, body, cal) ==
    LET chosen == session.slots[int(body)]
        outcome == create_calendar_event(shop, cal)
        call == CalendarCall(shop, chosen, chosen + AppointmentMinutes, from_number, outcome)
    IN  IF outcome = "raised"
        THEN [sessions |-> SESSIONS, calendar |-> call, reply |-> Error500]
        ELSE [sessions |-> Put(SESSIONS, key, booked_session(session)),
              calendar |-> call, reply |-> Confirmation(chosen)]

\* The image branch once the estimate is there: [sessions, slots, reply].  The
\* cost range and the joins are built before the session is written, the
\* confidence is formatted after it.
image_branch(shop, key, result) ==
    IF \/ FormatRaises(result["min_cost"]) \/ FormatRaises(result["max_cost"])
       \/ JoinRaises(result["damage_areas"]) \/ JoinRaises(result["damage_types"])
    THEN [sessions |-> SESSIONS, slots |-> <<>>, reply |-> Error500]
    ELSE LET slots == get_appointment_slots(DefaultSlotCount)
             stored == Put(SESSIONS, key, Session(TRUE, slots))
         IN  IF FormatRaises(result["confidence"])
             THEN [sessions |-> stored, slots |-> slots, reply |-> Error500]
             ELSE [sessions |-> stored, slots |-> slots,
                   reply |-> EstimateReply(shop, result, slots)]

\* A default branch that creates an idle session on first contact
default_branch_creates(sessions, key) ==
    IF key \in DOMAIN sessions THEN sessions ELSE Put(sessions, key, Session(FALSE, <<>>))

\* The default branch leaves the session map as it is
default_branch(sessions, key) == sessions

NoEstimate == [made |-> FALSE]
Estimate(called, result) == [made |-> TRUE, called |-> called, result |-> result]

\* The observation of one step
Observation(op, shop, from_number, body, images, session, branch, calendar, estimate, reply) ==
    [op |-> op, shop |-> shop, from_number |-> from_number, body |-> body, images |-> images,
     session |-> session, branch |-> branch, calendar |-> calendar, estimate |-> estimate,
     reply |-> reply]

Idle(op) == Observation(op, "", "", <<>>, 0, NoSession, "none", NoCall, NoEstimate, NoReply)

\* A request suspended at the estimator call keeps its shop and sender
NoRequest == [present |-> FALSE]
Request(shop, from_number) == [present |-> TRUE, shop |-> shop, from_number |-> from_number]

-----------------------------------------------------------------------------
(* The state machine *)

Init ==
    /\ SHOPS_BY_TOKEN \in {load_shops(data) : data \in ShopLists}
    /\ OPENAI_API_KEY \in BOOLEAN
    /\ SESSIONS = EmptyMap
    /\ now \in StartTimes
    /\ pending = [r \in 1..MaxInFlight |-> NoRequest]
    /\ last = Idle("init")

\* The handler after get_shop resolved the shop and the form was read
Handle(shop, from_number, raw_body, media) ==
    LET body == strip(raw_body)
        image_urls == extract_image_urls(media)
        images == Len(image_urls)
        key == session_key(shop, from_number)
        session == sessions_get(key)
        branch == branch_of(session, body, image_urls)
    IN
    CASE branch = "booking" ->
            \E cal \in CalendarBehaviours :
                LET out == booking_branch(shop, from_number, key, session, body, cal) IN
                /\ SESSIONS' = out.sessions
                /\ last' = Observation("webhook", shop.id, from_number, body, images, session,
                                       branch, out.calendar, NoEstimate, out.reply)
                /\ UNCHANGED <<SHOPS_BY_TOKEN, OPENAI_API_KEY, now, pending>>
      [] branch = "image" /\ ~OPENAI_API_KEY ->
            LET result == estimate_without_key
                out == image_branch(shop, key, result)
            IN
            /\ SESSIONS' = out.sessions
            /\ last' = Observation("webhook", shop.id, from_number, body, images, session,
                                   branch, NoCall, Estimate(FALSE, result), out.reply)
            /\ UNCHANGED <<SHOPS_BY_TOKEN, OPENAI_API_KEY, now, pending>>
      [] branch = "image" /\ OPENAI_API_KEY ->
            /\ \E r \in DOMAIN pending :
                  /\ ~pending[r].present
                  /\ \A q \in DOMAIN pending : q < r => pending[q].present
                  /\ pending' = [pending EXCEPT ![r] = Request(shop, from_number)]
            /\ last' = Observation("webhook", shop.id, from_number, body, images, session,
                                   branch, NoCall, NoEstimate, NoReply)
            /\ UNCHANGED <<SHOPS_BY_TOKEN, OPENAI_API_KEY, SESSIONS, now>>
      [] branch = "default" ->
            /\ SESSIONS' = default_branch(SESSIONS, key)
            /\ last' = Observation("webhook", shop.id, from_number, body, images, session,
                                   branch, NoCall, NoEstimate, Generic(shop))
            /\ UNCHANGED <<SHOPS_BY_TOKEN, OPENAI_API_KEY, now, pending>>

\* One inbound message, handled up to its response or, in the image branch
\* with an estimator key, up to the await of the estimator call.  A request
\* get_shop refuses never reaches the handler body.
SmsWebhook(query) ==
    LET shop == get_shop(query) IN
    IF shop = Forbidden
    THEN /\ last' = Observation("webhook", "", "", <<>>, 0, NoSession,
                                "rejected", NoCall, NoEstimate, Rejected403)
         /\ UNCHANGED <<SHOPS_BY_TOKEN, OPENAI_API_KEY, SESSIONS, now, pending>>
    ELSE \E from_number \in Senders(shop), raw_body \in Bodies, media \in MediaForms :
            Handle(shop, from_number, raw_body, media)

\* The estimator call of suspended request r comes back with resp and the
\* handler runs to its response.
EstimatorReturns(r, resp) ==
    /\ pending[r].present
    /\ LET shop == pending[r].shop
           from_number == pending[r].from_number
           key == session_key(shop, from_number)
           result == estimate_after_call(resp)
           out == image_branch(shop, key, result)
       IN  /\ SESSIONS' = out.sessions
           /\ last' = Observation("resume", shop.id, from_number, <<>>, 0, NoSession,
                                  "image", NoCall, Estimate(TRUE, result), out.reply)
    /\ pending' = [pending EXCEPT ![r] = NoRequest]
    /\ UNCHANGED <<SHOPS_BY_TOKEN, OPENAI_API_KEY, now>>

\* Time passes
Tick ==
    /\ DayOf(now + TickMinutes) <= MaxDay
    /\ now' = now + TickMinutes
    /\ last' = Idle("tick")
    /\ UNCHANGED <<SHOPS_BY_TOKEN, OPENAI_API_KEY, SESSIONS, pending>>

Next ==
    \/ \E query \in Queries : SmsWebhook(query)
    \/ \E r \in DOMAIN pending, resp \in EstimatorResponses : EstimatorReturns(r, resp)
    \/ Tick

Spec == Init /\ [][Next]_vars

-----------------------------------------------------------------------------
(* Properties *)

Selections == {<<"1">>, <<"2">>, <<"3">>}
Lookup(map, key) == IF key \in DOMAIN map THEN map[key] ELSE NoSession

\* The step just taken handled a message for a resolved shop
Handled == last.op = "webhook" /\ last.branch # "rejected"
\* ... and produced its response (it is not suspended at the estimator)
Suspended == Handled /\ last.branch = "image" /\ ~last.estimate.made
Completed == (Handled /\ ~Suspended) \/ last.op = "resume"
LastKey == last.shop \o ":" \o last.from_number

\* The message was a selection k of an awaiting session with at least k slots
ValidSelection(obs) ==
    /\ obs.session.present /\ obs.session.awaiting_time
    /\ obs.body \in Selections
    /\ int(obs.body) <= Len(obs.session.slots)

\* C1: a message whose trimmed text is k in {"1","2","3"}, for a session that
\* is awaiting and has at least k slots, is answered by the confirmation naming
\* slots[k-1], the calendar is asked for slots[k-1] .. slots[k-1] + 45 minutes,
\* and the session is not awaiting afterwards.
C1_BookingTransition ==
    (Handled /\ ValidSelection(last)) =>
        LET chosen == last.session.slots[int(last.body)] IN
        /\ last.reply = Confirmation(chosen)
        /\ last.calendar.called
        /\ last.calendar.start_dt = chosen
        /\ last.calendar.end_dt = chosen + 45
        /\ ~Lookup(SESSIONS, LastKey).awaiting_time

\* C2: an image message that the booking branch does not take stores a session
\* that is awaiting with a freshly generated slot list, and the reply lists
\* exactly the stored slots (at most 3), in order.
C2_ImageTransition ==
    (Completed /\ last.branch = "image") =>
        LET stored == Lookup(SESSIONS, LastKey) IN
        /\ stored.present /\ stored.awaiting_time
        /\ stored.slots = get_appointment_slots(3)
        /\ Len(stored.slots) <= 3
        /\ last.reply.kind = "estimate"
        /\ last.reply.list = [i \in 1..Len(stored.slots) |-> strftime(stored.slots[i])]

\* C3: when an estimate reply to a sender is followed by that sender's
\* selection k, the reply confirms the k-th slot of the list that estimate
\* reply showed, and the session is not awaiting afterwards.
C3_SelectionOfLatestList ==
    [][ (/\ last.reply.kind = "estimate"
         /\ last'.op = "webhook" /\ last'.branch # "rejected"
         /\ last'.shop = last.shop /\ last'.from_number = last.from_number
         /\ last'.images = 0 /\ last'.body \in Selections
         /\ int(last'.body) <= Len(last.reply.list))
        => /\ last'.reply.kind = "confirmation"
           /\ last'.reply.time = last.reply.list[int(last'.body)]
           /\ ~Lookup(SESSIONS', LastKey').awaiting_time ]_vars

\* C4: a message with no images that is not a valid selection gets the generic
\* reply, leaves the whole session map unchanged (no session is created) and
\* calls neither the estimator nor the calendar.
C4_DefaultLeavesState ==
    [][ (last'.op = "webhook" /\ last'.branch # "rejected"
         /\ last'.images = 0 /\ ~ValidSelection(last'))
        => /\ last'.reply.kind = "generic"
           /\ SESSIONS' = SESSIONS
           /\ ~last'.calendar.called
           /\ ~last'.estimate.made
           /\ pending' = pending ]_vars

\* C4 witness: "4" was sent to an awaiting session and fell to the default branch
C4_Witness ==
    /\ Handled /\ last.branch = "default" /\ last.body = <<"4">>
    /\ last.session.present /\ last.session.awaiting_time
    /\ Lookup(SESSIONS, LastKey).awaiting_time

\* C5: a message with a selection text and images is booked exactly when the
\* session is awaiting (no estimator call, slots not replaced); otherwise it
\* takes the image branch and no booking is made.
C5_BranchPrecedence ==
    [][ (last'.op = "webhook" /\ last'.branch # "rejected"
         /\ last'.images > 0 /\ last'.body \in Selections)
        => IF last'.session.present /\ last'.session.awaiting_time
           THEN /\ last'.branch = "booking"
                /\ last'.calendar.called
                /\ ~last'.estimate.made
                /\ pending' = pending
                /\ Lookup(SESSIONS', LastKey').present
                /\ Lookup(SESSIONS', LastKey').slots = Lookup(SESSIONS, LastKey').slots
           ELSE /\ last'.branch = "image"
                /\ ~last'.calendar.called
                /\ last'.reply.kind # "confirmation" ]_vars

\* C5 witness: a selection that carried an image was booked
C5_Witness ==
    /\ Handled /\ last.branch = "booking" /\ last.images > 0
    /\ last.reply.kind = "confirmation"

\* C6: for a successful selection the reply and the transition to not awaiting
\* are the same whether the calendar succeeds, fails or is absent.
C6_CalendarIndependence ==
    (Handled /\ last.branch = "booking") =>
        /\ last.reply = Confirmation(last.session.slots[int(last.body)])
        /\ ~Lookup(SESSIONS, LastKey).awaiting_time

\* C7: a message of a sender to one tenant leaves the session the same sender
\* has with every other tenant as it was, and the session it reads is the one
\* held under its own tenant id and sender.
OtherTenants(id) ==
    {s \in {SHOPS_BY_TOKEN[t] : t \in DOMAIN SHOPS_BY_TOKEN} \cup {DefaultShop} : s.id # id}

C7_CrossTenantIsolation ==
    [][ (last'.op \in {"webhook", "resume"} /\ last'.branch # "rejected")
        => /\ \A other \in OtherTenants(last'.shop) :
                 LET key == session_key(other, last'.from_number) IN
                 Lookup(SESSIONS', key) = Lookup(SESSIONS, key)
           /\ last'.op = "webhook" => last'.session = Lookup(SESSIONS, LastKey') ]_vars

\* C7 witness: one sender holds an awaiting session with one tenant and a
\* booked one with the other, the booking being the step just taken
C7_Witness ==
    /\ Handled /\ last.branch = "booking" /\ last.shop = "east" /\ last.from_number = "+1555"
    /\ last.reply.kind = "confirmation"
    /\ Lookup(SESSIONS, "east:wa:+1555").present
    /\ Lookup(SESSIONS, "east:wa:+1555").awaiting_time
    /\ ~Lookup(SESSIONS, "east:+1555").awaiting_time

\* C8: every session that is awaiting has a non-empty slot list.
C8_AwaitingHasSlots ==
    \A key \in DOMAIN SESSIONS : SESSIONS[key].awaiting_time => SESSIONS[key].slots # <<>>

\* C8 witness: an awaiting session stored at one minute to midnight
C8_Witness ==
    /\ Completed /\ last.branch = "image"
    /\ HourOf(now) = 23 /\ MinuteOf(now) = 59
    /\ Lookup(SESSIONS, LastKey).awaiting_time

\* C9: every message that resolves to a tenant gets a conversational reply
\* (confirmation, estimate or generic), whatever the estimator and the calendar do.
C9_AlwaysAReply ==
    Completed => last.reply.kind \in {"confirmation", "estimate", "generic"}

\* C10: the estimate used to build a reply has severity Minor, Moderate or
\* Severe, numeric costs with min_cost <= max_cost and a confidence within [0, 1].
ValidEstimate(result) ==
    /\ result["severity"] \in {Str("Minor"), Str("Moderate"), Str("Severe")}
    /\ result["min_cost"].t = "num" /\ result["max_cost"].t = "num"
    /\ result["min_cost"].n <= result["max_cost"].n
    /\ result["confidence"].t = "num"
    /\ 0 <= result["confidence"].n /\ result["confidence"].n <= 1000

C10_NormalizerTotality ==
    (Completed /\ last.reply.kind = "estimate") => ValidEstimate(last.estimate.result)

\* The requests suspended at the estimator call that hold session key `key`:
\* each has read SESSIONS (line 222) and not yet written it (line 266)
InFlight(key) ==
    {r \in DOMAIN pending :
        pending[r].present /\ session_key(pending[r].shop, pending[r].from_number) = key}

\* C12: between the read and the write a request makes of the session of a
\* key, no other request of that key reads or writes it: a request that has
\* just been handled or resumed meets no request of its key suspended at the
\* estimator call, other than itself.
C12_SameKeyAtomicity ==
    (Handled \/ last.op = "resume")
        => Cardinality(InFlight(LastKey)) <= (IF Suspended THEN 1 ELSE 0)

\* C13: a session sees at most one calendar-booking attempt per estimate: two
\* messages in a row, with no estimate delivered between them, never both
\* reach the calendar for the same session, whatever the first attempt returned.
C13_OneAttemptPerCycle ==
    [][ ~ /\ Handled /\ last.calendar.called
          /\ last'.op = "webhook" /\ last'.branch = "booking" /\ last'.calendar.called
          /\ LastKey' = LastKey ]_vars

\* C16: a request get_shop refuses (non-empty directory, token missing,
\* empty or unknown) is answered 403 and nothing else happens: SESSIONS and
\* the suspended requests are unchanged, no estimator call and no calendar
\* call is made, whatever the sessions hold.
C16_RejectionNoEffect ==
    [][ \A query \in Queries :
          ( /\ DOMAIN SHOPS_BY_TOKEN # {}
            /\ \/ "token" \notin DOMAIN query
               \/ query["token"] = ""
               \/ query["token"] \notin DOMAIN SHOPS_BY_TOKEN
            /\ SmsWebhook(query) )
          => /\ last'.reply = [kind |-> "error", status_code |-> 403]
             /\ SESSIONS' = SESSIONS
             /\ pending' = pending
             /\ ~last'.calendar.called
             /\ ~last'.estimate.made ]_vars

\* C16 witness: a request was refused while a session was awaiting a selection
C16_Witness ==
    /\ last.op = "webhook" /\ last.branch = "rejected"
    /\ last.reply.status_code = 403
    /\ \E key \in DOMAIN SESSIONS : SESSIONS[key].awaiting_time

\* The shops requests can resolve to, and the senders they can come from
Tenants ==
    IF DOMAIN SHOPS_BY_TOKEN = {}
    THEN {DefaultShop}
    ELSE {SHOPS_BY_TOKEN[t] : t \in DOMAIN SHOPS_BY_TOKEN}
AllSenders == UNION {Senders(shop) : shop \in Tenants}

\* C17: two distinct (tenant id, sender id) pairs have different sessions: a
\* message of one pair leaves the session of every other pair as it was.
C17_PairIdentity ==
    [][ (last'.op \in {"webhook", "resume"} /\ last'.branch # "rejected")
        => \A other \in Tenants, sender \in AllSenders :
              (other.id # last'.shop \/ sender # last'.from_number)
              => LET key == session_key(other, sender) IN
                 Lookup(SESSIONS', key) = Lookup(SESSIONS, key) ]_vars

\* C18: the slot a booking confirmation names starts strictly after the time
\* the selection is handled, however long after the estimate that is.
C18_BookedSlotInFuture ==
    (Handled /\ last.branch = "booking" /\ last.reply.kind = "confirmation")
        => last.calendar.start_dt > now

\* C19: a step changes at most the session entry of the key of its message:
\* every other entry is unchanged, no entry is removed, an entry appears only
\* in the image branch, and a booking leaves the slots of its entry as they were.
C19_SessionFrame ==
    [][ LET own == LastKey'
            message == last'.op \in {"webhook", "resume"} /\ last'.branch # "rejected"
        IN  /\ DOMAIN SESSIONS \subseteq DOMAIN SESSIONS'
            /\ \A key \in DOMAIN SESSIONS :
                  (~message \/ key # own) => SESSIONS'[key] = SESSIONS[key]
            /\ \A key \in DOMAIN SESSIONS' \ DOMAIN SESSIONS :
                  message /\ key = own /\ last'.branch = "image"
            /\ (last'.op = "webhook" /\ last'.branch = "booking")
                  => /\ own \in DOMAIN SESSIONS
                     /\ SESSIONS'[own].slots = SESSIONS[own].slots ]_vars

\* C19 witness: a booking was confirmed for one session while another
\* session existed, and the booked session still holds its three slots
C19_Witness ==
    /\ Handled /\ last.branch = "booking" /\ last.reply.kind = "confirmation"
    /\ Cardinality(DOMAIN SESSIONS) = 2
    /\ ~SESSIONS[LastKey].awaiting_time
    /\ Len(SESSIONS[LastKey].slots) = 3
    /\ \E key \in DOMAIN SESSIONS : key # LastKey /\ SESSIONS[key].awaiting_time

-----------------------------------------------------------------------------
(* The shop directory on its own: get_shop applied to every query, for the
   directories load_shops makes of the lists below *)

ShopPool ==
    { ShopConfig("east", "East Auto", "cal-east", "tok-east"),
      ShopConfig("east:wa", "East WhatsApp", NoCalendar, "tok-wa"),
      ShopConfig("west", "West Auto", "cal-west", "tok-east"),
      ShopConfig("north", "North Auto", NoCalendar, "tok-north"),
      ShopConfig("south", "South Auto", "cal-south", "tok-south") }

DirectoryLists == {<<>>} \cup {<<a>> : a \in ShopPool} \cup {<<a, b>> : a, b \in ShopPool}

DirectoryQueries ==
    {EmptyMap} \cup
    {"token" :> t : t \in {"", "nope", "tok-east", "tok-wa", "tok-north", "tok-south"}}

InitDirectory ==
    /\ SHOPS_BY_TOKEN \in {load_shops(data) : data \in DirectoryLists}
    /\ OPENAI_API_KEY = FALSE
    /\ SESSIONS = EmptyMap
    /\ now \in StartTimes
    /\ pending = [r \in 1..MaxInFlight |-> NoRequest]
    /\ last = [op |-> "init"]

\* The Depends(get_shop) of one request
Resolve(query) ==
    /\ last' = [op |-> "get_shop", query |-> query, shop |-> get_shop(query)]
    /\ UNCHANGED <<SHOPS_BY_TOKEN, OPENAI_API_KEY, SESSIONS, now, pending>>

NextDirectory == \E query \in DirectoryQueries : Resolve(query)

SpecDirectory == InitDirectory /\ [][NextDirectory]_vars

\* C11: with a non-empty directory get_shop returns the tenant whose webhook
\* token is the supplied one and refuses with 403 a missing, empty or unknown
\* token; with an empty directory it returns the default tenant (id "default",
\* no calendar id) whatever the token.
C11_TenantResolution ==
    last.op = "get_shop" =>
        LET tenants == {SHOPS_BY_TOKEN[t] : t \in DOMAIN SHOPS_BY_TOKEN}
            supplied == "token" \in DOMAIN last.query
            token == IF supplied THEN last.query["token"] ELSE ""
        IN  IF tenants = {}
            THEN /\ last.shop # Forbidden
                 /\ last.shop.id = "default"
                 /\ last.shop.calendar_id = NoCalendar
            ELSE IF ~supplied \/ token = "" \/ \A s \in tenants : s.webhook_token # token
                 THEN last.shop = [status_code |-> 403]
                 ELSE last.shop \in tenants /\ last.shop.webhook_token = token

\* C11 witness: a directory of two tenants resolved the second by its token
C11_Witness ==
    /\ last.op = "get_shop"
    /\ Cardinality(DOMAIN SHOPS_BY_TOKEN) = 2
    /\ last.query = ("token" :> "tok-wa")
    /\ last.shop # Forbidden
    /\ last.shop.id = "east:wa"

-----------------------------------------------------------------------------
(* The slot generator on its own: get_appointment_slots(n) at clock values
   on both sides of every candidate hour and of midnight *)

MaxCount == 5

Clocks == {d * MinutesPerDay + h * 60 + m : d \in 0..MaxDay, h \in 0..23, m \in {0, 1, 59}}

InitSlots ==
    /\ SHOPS_BY_TOKEN = EmptyMap
    /\ OPENAI_API_KEY = FALSE
    /\ SESSIONS = EmptyMap
    /\ now \in Clocks
    /\ pending = [r \in 1..MaxInFlight |-> NoRequest]
    /\ last = [op |-> "init"]

\* One call get_appointment_slots(n)
GenerateSlots(n) ==
    /\ last' = [op |-> "get_appointment_slots", n |-> n, slots |-> get_appointment_slots(n)]
    /\ UNCHANGED <<SHOPS_BY_TOKEN, OPENAI_API_KEY, SESSIONS, now, pending>>

NextSlots == \E n \in 0..MaxCount : GenerateSlots(n)

SpecSlots == InitSlots /\ [][NextSlots]_vars

\* C14: the list get_appointment_slots(n) returns at clock value now is
\* strictly increasing, has at most n entries, each strictly after now and
\* each at 9:00, 11:00, 14:00 or 16:00 of the day after now's day; it is the
\* first n of those four, never padded from a later day.
C14_SlotGeneration ==
    last.op = "get_appointment_slots" =>
        LET slots == last.slots
            day == (now - (now % (24 * 60))) + 24 * 60
            candidates == <<day + 9 * 60, day + 11 * 60, day + 14 * 60, day + 16 * 60>>
        IN  /\ Len(slots) <= last.n
            /\ \A i \in 1..Len(slots) :
                  /\ slots[i] > now
                  /\ \E k \in 1..4 : slots[i] = candidates[k]
                  /\ i > 1 => slots[i - 1] < slots[i]
            /\ Len(slots) = (IF last.n < 4 THEN last.n ELSE 4)
            /\ \A i \in 1..Len(slots) : slots[i] = candidates[i]

\* C14 witness: a minute before midnight, and asked for five, the generator
\* returned the four slots of the next day
C14_Witness ==
    /\ last.op = "get_appointment_slots"
    /\ now % (24 * 60) = 23 * 60 + 59
    /\ last.n = 5
    /\ Len(last.slots) = 4

-----------------------------------------------------------------------------
(* The estimator on its own: estimate_damage_from_images with and without a
   key, for the responses above and for every object that supplies a subset
   of the seven fields *)

Fields ==
    {"severity", "min_cost", "max_cost", "damage_areas", "damage_types",
     "suggested_repairs", "confidence"}

Supplied ==
    ("severity" :> Str("Severe")) @@ ("min_cost" :> Num(0)) @@ ("max_cost" :> Null)
    @@ ("damage_areas" :> List(<<Str("door")>>)) @@ ("damage_types" :> List(<<>>))
    @@ ("suggested_repairs" :> Str("")) @@ ("confidence" :> Num(0))

ObjectResponses ==
    EstimatorResponses \cup {Object([k \in S |-> Supplied[k]]) : S \in SUBSET Fields}

InitEstimator ==
    /\ SHOPS_BY_TOKEN = EmptyMap
    /\ OPENAI_API_KEY \in BOOLEAN
    /\ SESSIONS = EmptyMap
    /\ now \in StartTimes
    /\ pending = [r \in 1..MaxInFlight |-> NoRequest]
    /\ last = [op |-> "init"]

\* One call of estimate_damage_from_images
Estimates(resp) ==
    /\ last' = [op |-> "estimate_damage_from_images", response |-> resp,
                estimate |-> estimate_damage_from_images(resp)]
    /\ UNCHANGED <<SHOPS_BY_TOKEN, OPENAI_API_KEY, SESSIONS, now, pending>>

NextEstimator == \E resp \in ObjectResponses : Estimates(resp)

SpecEstimator == InitEstimator /\ [][NextEstimator]_vars

\* C15: the estimate has confidence 0.65 and no call is made when no key is
\* configured, 0.70 when the call returned an object without confidence, 0.55
\* when the call failed; in each case a missing severity, min_cost, max_cost
\* is Moderate, 450, 1200 and a missing list is empty, and a field the
\* response supplied keeps the value supplied.
C15_DefaultConfidence ==
    last.op = "estimate_damage_from_images" =>
        LET result == last.estimate.result
            resp == last.response
            Default(confidence) ==
                [k \in Fields |->
                    CASE k = "severity" -> [t |-> "str", s |-> "Moderate"]
                      [] k = "min_cost" -> [t |-> "num", n |-> 450]
                      [] k = "max_cost" -> [t |-> "num", n |-> 1200]
                      [] k = "confidence" -> [t |-> "num", n |-> confidence]
                      [] OTHER -> [t |-> "list", l |-> <<>>]]
        IN  IF ~OPENAI_API_KEY
            THEN ~last.estimate.called /\ result = Default(650)
            ELSE /\ last.estimate.called
                 /\ IF resp.ok /\ resp.object
                    THEN /\ \A k \in DOMAIN resp.fields : result[k] = resp.fields[k]
                         /\ \A k \in Fields \ DOMAIN resp.fields : result[k] = Default(700)[k]
                         /\ DOMAIN result = Fields \cup DOMAIN resp.fields
                    ELSE result = Default(550)

\* C15 witness: with a key, the call returned an object that supplies a zero
\* min_cost and a null max_cost and nothing else
C15_Witness ==
    /\ last.op = "estimate_damage_from_images"
    /\ OPENAI_API_KEY
    /\ last.response = Object(("min_cost" :> Num(0)) @@ ("max_cost" :> Null))
    /\ last.estimate.result["confidence"] = Num(700)
    /\ last.estimate.result["max_cost"] = Null

====
